---- MODULE Spec2Model ----
(***************************************************************************)
(* EncryptedSurvey (contracts/EncryptedSurvey.sol): a survey whose votes   *)
(* are accumulated per option as FHE ciphertexts.  Every external function *)
(* of the contract is one action; a reverting call leaves the storage      *)
(* untouched and only shows in the receipt of the transaction (tx).        *)
(***************************************************************************)
EXTENDS Integers, Sequences, FiniteSets, TLC

\* ------------------------------------------------------------------ bounds
\* the longest option list a caller passes to configureSurvey
MaxLabels == 2
\* the most signer resolutions the dashboard starts
MaxRuns == 3

\* ------------------------------------------------------- program constants
\* a euint32 is held as two 16-bit limbs <<hi, lo>>, so that sums wrap at 2^32
Limb == 65536
\* configureSurvey requires optionLabels.length >= MinOptions
MinOptions == 2

\* the externally owned accounts that deploy and call the contract
Addr == {"alice", "bob"}
\* address(0), the value of an unset address (surveyCreator before configure)
ZeroAddr == "0x0"
\* address(this), the contract's own address in the ACL
ThisAddr == "this"
\* the addresses a caller names as grantee in allowResultFor
Grantees == Addr

Questions == {"Q"}
LabelPool == <<"Red", "Blue", "Green", "Gold", "Pink">>
LabelLists == {SubSeq(LabelPool, 1, n) : n \in 0..MaxLabels}
\* option indices a caller may pass: 0-based, MaxLabels is always out of range
Indices == 0..MaxLabels

\* plaintexts a voter may encrypt: 1 (the UI default) and 2^32 - 1
One == <<0, 1>>
MaxUint32 == <<Limb - 1, Limb - 1>>
VoteValues == {One, MaxUint32}

VARIABLES
    owner,            \* address public immutable owner
    surveyCreator,    \* address public surveyCreator
    surveyQuestion,   \* string public surveyQuestion
    options,          \* SurveyOption[] private _options
    isConfigured,     \* bool public isConfigured
    isFinalized,      \* bool public isFinalized
    hasVoted,         \* mapping(address => bool) public hasVoted
    optionHasVotes,   \* mapping(uint256 => bool) public optionHasVotes
    acl,              \* the FHE access-control list: pairs <<ciphertext, address>>
    acceptedVotes,    \* per address, how many VoteSubmitted events it has caused
    ballots,          \* per address, the <<option, plaintext>> of its accepted votes
    tx                \* the last transaction: call, outcome, events, return value

storage == <<owner, surveyCreator, surveyQuestion, options, isConfigured,
             isFinalized, hasVoted, optionHasVotes, acl, acceptedVotes, ballots>>
vars == <<owner, surveyCreator, surveyQuestion, options, isConfigured,
          isFinalized, hasVoted, optionHasVotes, acl, acceptedVotes, ballots, tx>>

\* --------------------------------------------------------- FHE capability
\* A ciphertext is known by its plaintext and by the voters whose inputs went
\* into it; every FHE.add yields a new ciphertext (a new handle).
\* An uninitialised euint32 (handle 0) is read by FHE.add as an encrypted 0.
ZeroCipher == [value |-> <<0, 0>>, voters |-> {}]

\* faulty variant: the sum saturates at 2^32 - 1 instead of wrapping
AddU32_Saturating(a, b) ==
    LET lo == a[2] + b[2]
        hi == a[1] + b[1] + (lo \div Limb)
    IN  IF hi >= Limb THEN <<Limb - 1, Limb - 1>> ELSE <<hi, lo % Limb>>

\* uint32 addition, wrapping at 2^32
AddU32(a, b) ==
    LET lo == a[2] + b[2]
        hi == a[1] + b[1] + (lo \div Limb)
    IN  <<hi % Limb, lo % Limb>>

\* faulty variant: the vote replaces the total instead of being added to it
FHEAdd_Overwrites(total, value, sender) ==
    [value |-> value, voters |-> total.voters \cup {sender}]

\* faulty variant: only the first vote of an option is taken into its total
FHEAdd_KeepsFirst(total, value, sender) ==
    [value |-> IF total.voters = {} THEN value ELSE total.value,
     voters |-> total.voters \cup {sender}]

\* FHE.add(total, FHE.fromExternal(encryptedVote, inputProof)) for msg.sender
FHEAdd(total, value, sender) ==
    [value |-> AddU32(total.value, value), voters |-> total.voters \cup {sender}]

\* faulty variant: allowing an address that is already allowed removes it
FHEAllow_Toggle(list, cipher, who) ==
    IF <<cipher, who>> \in list THEN list \ {<<cipher, who>>}
    ELSE list \cup {<<cipher, who>>}

\* FHE.allow(ciphertext, who)
FHEAllow(list, cipher, who) == list \cup {<<cipher, who>>}

\* ------------------------------------------------------------ receipts
Receipt(op, sender, args, result, events, ret) ==
    [op |-> op, sender |-> sender, args |-> args, result |-> result,
     events |-> events, ret |-> ret]

Reverted(op, sender, args, err) == Receipt(op, sender, args, err, <<>>, <<>>)

\* option k (0-based, as in the contract) of the _options array
OptionAt(k) == options[k + 1]

\* ------------------------------------------------- dashboard (signer sync)
\* EncryptedSurveyDashboard.tsx: the state of the component's signer effect
VARIABLES
    walletClient,     \* const { data: walletClient } = useWalletClient()
    ethersSigner,     \* useState<ethers.Signer | undefined>()
    ethersProvider,   \* useState<ethers.ContractRunner | undefined>()
    providerReady,    \* useState(false)
    syncRuns,         \* the syncSigner calls that reached their await, in order
    mounted,          \* the component is mounted
    lastSync          \* the last step of the effect: which run, whether it set state

dash == <<walletClient, ethersSigner, ethersProvider, providerReady, syncRuns,
          mounted, lastSync>>

\* the value of an unset wallet client, signer or provider
Undefined == "undefined"
\* the wallet clients useWalletClient may return
Clients == {"w1", "w2"}
\* what walletClientToEthers(c) resolves to
SignerOf(c) == CASE c = "w1" -> "signer of w1" [] c = "w2" -> "signer of w2"
ProviderOf(c) == CASE c = "w1" -> "provider of w1" [] c = "w2" -> "provider of w2"

SyncStep(op, run, wrote) == [op |-> op, run |-> run, wrote |-> wrote]

\* the component after its first render without a wallet client: the effect
\* has run its !walletClient branch
DashMounted ==
    /\ walletClient = Undefined
    /\ ethersSigner = Undefined
    /\ ethersProvider = Undefined
    /\ providerReady = FALSE
    /\ syncRuns = <<>>
    /\ mounted = TRUE
    /\ lastSync = SyncStep("clear", 0, TRUE)

\* ---------------------------------------------------------------- Init
Init ==
    /\ DashMounted
    /\ owner \in Addr
    /\ surveyCreator = ZeroAddr
    /\ surveyQuestion = ""
    /\ options = <<>>
    /\ isConfigured = FALSE
    /\ isFinalized = FALSE
    /\ hasVoted = [a \in Addr |-> FALSE]
    /\ optionHasVotes = [k \in Indices |-> FALSE]
    /\ acl = {}
    /\ acceptedVotes = [a \in Addr |-> 0]
    /\ ballots = [a \in Addr |-> <<>>]
    /\ tx = Receipt("constructor", owner, <<>>, "ok", <<>>, <<>>)

\* ------------------------------------------------------ configureSurvey
\* faulty variant: the length check placed before the isConfigured check
ConfigureCheck_LengthFirst(labels) ==
    IF Len(labels) < MinOptions THEN "InvalidOption"
    ELSE IF isConfigured THEN "SurveyClosed"
    ELSE "ok"

\* faulty variant: the isConfigured check left out
ConfigureCheck_NoClosedCheck(labels) ==
    IF Len(labels) < MinOptions THEN "InvalidOption" ELSE "ok"

\* faulty variant: a single label is accepted (length compared with 1)
ConfigureCheck_AllowsOneLabel(labels) ==
    IF isConfigured THEN "SurveyClosed"
    ELSE IF Len(labels) < 1 THEN "InvalidOption"
    ELSE "ok"

ConfigureCheck(labels) ==
    IF isConfigured THEN "SurveyClosed"
    ELSE IF Len(labels) < MinOptions THEN "InvalidOption"
    ELSE "ok"

\* faulty variant: the options are stored in reverse order
ConfigureSurvey_ReversedLabels(sender, question, labels) ==
    LET err == ConfigureCheck(labels) IN
    IF err = "ok"
    THEN /\ surveyQuestion' = question
         /\ surveyCreator' = sender
         /\ options' = [i \in 1..Len(labels) |->
                          [label |-> labels[Len(labels) + 1 - i],
                           encryptedTotal |-> ZeroCipher]]
         /\ isConfigured' = TRUE
         /\ isFinalized' = FALSE
         /\ tx' = Receipt("configureSurvey", sender, <<question, labels>>, "ok",
                          <<[name |-> "SurveyConfigured", question |-> question,
                             options |-> labels]>>, <<>>)
         /\ UNCHANGED <<owner, hasVoted, optionHasVotes, acl, acceptedVotes, ballots>>
    ELSE /\ tx' = Reverted("configureSurvey", sender, <<question, labels>>, err)
         /\ UNCHANGED storage

\* faulty variant: the owner, not msg.sender, is recorded as creator
ConfigureSurvey_CreatorIsOwner(sender, question, labels) ==
    LET err == ConfigureCheck(labels) IN
    IF err = "ok"
    THEN /\ surveyQuestion' = question
         /\ surveyCreator' = owner
         /\ options' = [i \in 1..Len(labels) |->
                          [label |-> labels[i], encryptedTotal |-> ZeroCipher]]
         /\ isConfigured' = TRUE
         /\ isFinalized' = FALSE
         /\ tx' = Receipt("configureSurvey", sender, <<question, labels>>, "ok",
                          <<[name |-> "SurveyConfigured", question |-> question,
                             options |-> labels]>>, <<>>)
         /\ UNCHANGED <<owner, hasVoted, optionHasVotes, acl, acceptedVotes, ballots>>
    ELSE /\ tx' = Reverted("configureSurvey", sender, <<question, labels>>, err)
         /\ UNCHANGED storage

\* faulty variant: isConfigured is not set
ConfigureSurvey_NoFlag(sender, question, labels) ==
    LET err == ConfigureCheck(labels) IN
    IF err = "ok"
    THEN /\ surveyQuestion' = question
         /\ surveyCreator' = sender
         /\ options' = [i \in 1..Len(labels) |->
                          [label |-> labels[i], encryptedTotal |-> ZeroCipher]]
         /\ isFinalized' = FALSE
         /\ tx' = Receipt("configureSurvey", sender, <<question, labels>>, "ok",
                          <<[name |-> "SurveyConfigured", question |-> question,
                             options |-> labels]>>, <<>>)
         /\ UNCHANGED <<owner, isConfigured, hasVoted, optionHasVotes, acl,
                        acceptedVotes, ballots>>
    ELSE /\ tx' = Reverted("configureSurvey", sender, <<question, labels>>, err)
         /\ UNCHANGED storage

ConfigureSurvey(sender, question, labels) ==
    LET err == ConfigureCheck(labels) IN
    IF err = "ok"
    THEN /\ surveyQuestion' = question
         /\ surveyCreator' = sender
         /\ options' = [i \in 1..Len(labels) |->
                          [label |-> labels[i], encryptedTotal |-> ZeroCipher]]
         /\ isConfigured' = TRUE
         /\ isFinalized' = FALSE
         /\ tx' = Receipt("configureSurvey", sender, <<question, labels>>, "ok",
                          <<[name |-> "SurveyConfigured", question |-> question,
                             options |-> labels]>>, <<>>)
         /\ UNCHANGED <<owner, hasVoted, optionHasVotes, acl, acceptedVotes, ballots>>
    ELSE /\ tx' = Reverted("configureSurvey", sender, <<question, labels>>, err)
         /\ UNCHANGED storage

\* ----------------------------------------------------------- submitVote
\* faulty variant: the hasVoted check left out
SubmitVoteCheck_NoVotedCheck(sender, k, proofOk) ==
    IF ~isConfigured THEN "SurveyNotConfigured"
    ELSE IF isFinalized THEN "SurveyClosed"
    ELSE IF k >= Len(options) THEN "InvalidOption"
    ELSE IF ~proofOk THEN "InvalidProof"
    ELSE "ok"

\* faulty variant: the hasVoted check placed before the isFinalized check
SubmitVoteCheck_VotedFirst(sender, k, proofOk) ==
    IF ~isConfigured THEN "SurveyNotConfigured"
    ELSE IF hasVoted[sender] THEN "AlreadyVoted"
    ELSE IF isFinalized THEN "SurveyClosed"
    ELSE IF k >= Len(options) THEN "InvalidOption"
    ELSE IF ~proofOk THEN "InvalidProof"
    ELSE "ok"

\* faulty variant: the isFinalized check left out
SubmitVoteCheck_NoFinalizedCheck(sender, k, proofOk) ==
    IF ~isConfigured THEN "SurveyNotConfigured"
    ELSE IF hasVoted[sender] THEN "AlreadyVoted"
    ELSE IF k >= Len(options) THEN "InvalidOption"
    ELSE IF ~proofOk THEN "InvalidProof"
    ELSE "ok"

\* faulty variant: the index check placed before the hasVoted check
SubmitVoteCheck_IndexBeforeVoted(sender, k, proofOk) ==
    IF ~isConfigured THEN "SurveyNotConfigured"
    ELSE IF isFinalized THEN "SurveyClosed"
    ELSE IF k >= Len(options) THEN "InvalidOption"
    ELSE IF hasVoted[sender] THEN "AlreadyVoted"
    ELSE IF ~proofOk THEN "InvalidProof"
    ELSE "ok"

SubmitVoteCheck(sender, k, proofOk) ==
    IF ~isConfigured THEN "SurveyNotConfigured"
    ELSE IF isFinalized THEN "SurveyClosed"
    ELSE IF hasVoted[sender] THEN "AlreadyVoted"
    ELSE IF k >= Len(options) THEN "InvalidOption"
    ELSE IF ~proofOk THEN "InvalidProof"
    ELSE "ok"

\* faulty variant: the creator is not allowed on the new total
SubmitVoteAllow_NoCreator(total) ==
    FHEAllow(FHEAllow(acl, total, ThisAddr), total, owner)

\* faulty variant: the entries of earlier ciphertexts are dropped
SubmitVoteAllow_ForgetsOld(total) ==
    {<<total, ThisAddr>>, <<total, owner>>, <<total, surveyCreator>>}

\* the ACL after the three allow calls of submitVote on the new total
SubmitVoteAllow(total) ==
    LET a1 == FHEAllow(acl, total, ThisAddr)
        a2 == FHEAllow(a1, total, owner)
    IN  IF surveyCreator # ZeroAddr THEN FHEAllow(a2, total, surveyCreator) ELSE a2

\* faulty variant: hasVoted[msg.sender] is never set
SubmitVote_NoRecord(sender, k, value, proofOk) ==
    LET err == SubmitVoteCheck(sender, k, proofOk) IN
    IF err = "ok"
    THEN LET total == FHEAdd(OptionAt(k).encryptedTotal, value, sender) IN
         /\ options' = [options EXCEPT ![k + 1].encryptedTotal = total]
         /\ optionHasVotes' = [optionHasVotes EXCEPT ![k] = TRUE]
         /\ acl' = SubmitVoteAllow(total)
         /\ acceptedVotes' = [acceptedVotes EXCEPT ![sender] = @ + 1]
         /\ ballots' = [ballots EXCEPT ![sender] = Append(@, <<k, value>>)]
         /\ tx' = Receipt("submitVote", sender, <<k, proofOk>>, "ok",
                          <<[name |-> "VoteSubmitted", who |-> sender, idx |-> k]>>,
                          <<>>)
         /\ UNCHANGED <<owner, surveyCreator, surveyQuestion, isConfigured,
                        isFinalized, hasVoted>>
    ELSE /\ tx' = Reverted("submitVote", sender, <<k, proofOk>>, err)
         /\ UNCHANGED storage

\* faulty variant: optionHasVotes[optionIndex] is written before the checks and
\* a failed check returns instead of reverting
SubmitVote_MarksBeforeChecks(sender, k, value, proofOk) ==
    LET err == SubmitVoteCheck(sender, k, proofOk) IN
    IF err = "ok"
    THEN LET total == FHEAdd(OptionAt(k).encryptedTotal, value, sender) IN
         /\ options' = [options EXCEPT ![k + 1].encryptedTotal = total]
         /\ optionHasVotes' = [optionHasVotes EXCEPT ![k] = TRUE]
         /\ hasVoted' = [hasVoted EXCEPT ![sender] = TRUE]
         /\ acl' = SubmitVoteAllow(total)
         /\ acceptedVotes' = [acceptedVotes EXCEPT ![sender] = @ + 1]
         /\ ballots' = [ballots EXCEPT ![sender] = Append(@, <<k, value>>)]
         /\ tx' = Receipt("submitVote", sender, <<k, proofOk>>, "ok",
                          <<[name |-> "VoteSubmitted", who |-> sender, idx |-> k]>>,
                          <<>>)
         /\ UNCHANGED <<owner, surveyCreator, surveyQuestion, isConfigured,
                        isFinalized>>
    ELSE /\ tx' = Reverted("submitVote", sender, <<k, proofOk>>, err)
         /\ optionHasVotes' = [optionHasVotes EXCEPT ![k] = TRUE]
         /\ UNCHANGED <<owner, surveyCreator, surveyQuestion, options, isConfigured,
                        isFinalized, hasVoted, acl, acceptedVotes, ballots>>

\* faulty variant: the vote is recorded under owner instead of msg.sender
SubmitVote_RecordsOwner(sender, k, value, proofOk) ==
    LET err == SubmitVoteCheck(sender, k, proofOk) IN
    IF err = "ok"
    THEN LET total == FHEAdd(OptionAt(k).encryptedTotal, value, sender) IN
         /\ options' = [options EXCEPT ![k + 1].encryptedTotal = total]
         /\ optionHasVotes' = [optionHasVotes EXCEPT ![k] = TRUE]
         /\ hasVoted' = [hasVoted EXCEPT ![owner] = TRUE]
         /\ acl' = SubmitVoteAllow(total)
         /\ acceptedVotes' = [acceptedVotes EXCEPT ![sender] = @ + 1]
         /\ ballots' = [ballots EXCEPT ![sender] = Append(@, <<k, value>>)]
         /\ tx' = Receipt("submitVote", sender, <<k, proofOk>>, "ok",
                          <<[name |-> "VoteSubmitted", who |-> sender, idx |-> k]>>,
                          <<>>)
         /\ UNCHANGED <<owner, surveyCreator, surveyQuestion, isConfigured,
                        isFinalized>>
    ELSE /\ tx' = Reverted("submitVote", sender, <<k, proofOk>>, err)
         /\ UNCHANGED storage

\* faulty variant: optionHasVotes[optionIndex] is never set
SubmitVote_NoFlag(sender, k, value, proofOk) ==
    LET err == SubmitVoteCheck(sender, k, proofOk) IN
    IF err = "ok"
    THEN LET total == FHEAdd(OptionAt(k).encryptedTotal, value, sender) IN
         /\ options' = [options EXCEPT ![k + 1].encryptedTotal = total]
         /\ hasVoted' = [hasVoted EXCEPT ![sender] = TRUE]
         /\ acl' = SubmitVoteAllow(total)
         /\ acceptedVotes' = [acceptedVotes EXCEPT ![sender] = @ + 1]
         /\ ballots' = [ballots EXCEPT ![sender] = Append(@, <<k, value>>)]
         /\ tx' = Receipt("submitVote", sender, <<k, proofOk>>, "ok",
                          <<[name |-> "VoteSubmitted", who |-> sender, idx |-> k]>>,
                          <<>>)
         /\ UNCHANGED <<owner, surveyCreator, surveyQuestion, isConfigured,
                        isFinalized, optionHasVotes>>
    ELSE /\ tx' = Reverted("submitVote", sender, <<k, proofOk>>, err)
         /\ UNCHANGED storage

\* faulty variant: hasVoted[msg.sender] is written before the proof is
\* validated and an invalid proof returns instead of reverting
SubmitVote_ConsumesOnBadProof(sender, k, value, proofOk) ==
    LET err == SubmitVoteCheck(sender, k, proofOk) IN
    IF err = "ok"
    THEN LET total == FHEAdd(OptionAt(k).encryptedTotal, value, sender) IN
         /\ options' = [options EXCEPT ![k + 1].encryptedTotal = total]
         /\ optionHasVotes' = [optionHasVotes EXCEPT ![k] = TRUE]
         /\ hasVoted' = [hasVoted EXCEPT ![sender] = TRUE]
         /\ acl' = SubmitVoteAllow(total)
         /\ acceptedVotes' = [acceptedVotes EXCEPT ![sender] = @ + 1]
         /\ ballots' = [ballots EXCEPT ![sender] = Append(@, <<k, value>>)]
         /\ tx' = Receipt("submitVote", sender, <<k, proofOk>>, "ok",
                          <<[name |-> "VoteSubmitted", who |-> sender, idx |-> k]>>,
                          <<>>)
         /\ UNCHANGED <<owner, surveyCreator, surveyQuestion, isConfigured,
                        isFinalized>>
    ELSE IF err = "InvalidProof"
    THEN /\ tx' = Reverted("submitVote", sender, <<k, proofOk>>, err)
         /\ hasVoted' = [hasVoted EXCEPT ![sender] = TRUE]
         /\ UNCHANGED <<owner, surveyCreator, surveyQuestion, options, isConfigured,
                        isFinalized, optionHasVotes, acl, acceptedVotes, ballots>>
    ELSE /\ tx' = Reverted("submitVote", sender, <<k, proofOk>>, err)
         /\ UNCHANGED storage

\* faulty variant: the hasVoted mapping is rebuilt with msg.sender as its only
\* entry
SubmitVote_ForgetsOtherVoters(sender, k, value, proofOk) ==
    LET err == SubmitVoteCheck(sender, k, proofOk) IN
    IF err = "ok"
    THEN LET total == FHEAdd(OptionAt(k).encryptedTotal, value, sender) IN
         /\ options' = [options EXCEPT ![k + 1].encryptedTotal = total]
         /\ optionHasVotes' = [optionHasVotes EXCEPT ![k] = TRUE]
         /\ hasVoted' = [a \in Addr |-> a = sender]
         /\ acl' = SubmitVoteAllow(total)
         /\ acceptedVotes' = [acceptedVotes EXCEPT ![sender] = @ + 1]
         /\ ballots' = [ballots EXCEPT ![sender] = Append(@, <<k, value>>)]
         /\ tx' = Receipt("submitVote", sender, <<k, proofOk>>, "ok",
                          <<[name |-> "VoteSubmitted", who |-> sender, idx |-> k]>>,
                          <<>>)
         /\ UNCHANGED <<owner, surveyCreator, surveyQuestion, isConfigured,
                        isFinalized>>
    ELSE /\ tx' = Reverted("submitVote", sender, <<k, proofOk>>, err)
         /\ UNCHANGED storage

\* faulty variant: the flag of every option is set, not only the voted one
SubmitVote_FlagsAllOptions(sender, k, value, proofOk) ==
    LET err == SubmitVoteCheck(sender, k, proofOk) IN
    IF err = "ok"
    THEN LET total == FHEAdd(OptionAt(k).encryptedTotal, value, sender) IN
         /\ options' = [options EXCEPT ![k + 1].encryptedTotal = total]
         /\ optionHasVotes' = [j \in Indices |-> j < Len(options)]
         /\ hasVoted' = [hasVoted EXCEPT ![sender] = TRUE]
         /\ acl' = SubmitVoteAllow(total)
         /\ acceptedVotes' = [acceptedVotes EXCEPT ![sender] = @ + 1]
         /\ ballots' = [ballots EXCEPT ![sender] = Append(@, <<k, value>>)]
         /\ tx' = Receipt("submitVote", sender, <<k, proofOk>>, "ok",
                          <<[name |-> "VoteSubmitted", who |-> sender, idx |-> k]>>,
                          <<>>)
         /\ UNCHANGED <<owner, surveyCreator, surveyQuestion, isConfigured,
                        isFinalized>>
    ELSE /\ tx' = Reverted("submitVote", sender, <<k, proofOk>>, err)
         /\ UNCHANGED storage

SubmitVote(sender, k, value, proofOk) ==
    LET err == SubmitVoteCheck(sender, k, proofOk) IN
    IF err = "ok"
    THEN LET total == FHEAdd(OptionAt(k).encryptedTotal, value, sender) IN
         /\ options' = [options EXCEPT ![k + 1].encryptedTotal = total]
         /\ optionHasVotes' = [optionHasVotes EXCEPT ![k] = TRUE]
         /\ hasVoted' = [hasVoted EXCEPT ![sender] = TRUE]
         /\ acl' = SubmitVoteAllow(total)
         /\ acceptedVotes' = [acceptedVotes EXCEPT ![sender] = @ + 1]
         /\ ballots' = [ballots EXCEPT ![sender] = Append(@, <<k, value>>)]
         /\ tx' = Receipt("submitVote", sender, <<k, proofOk>>, "ok",
                          <<[name |-> "VoteSubmitted", who |-> sender, idx |-> k]>>,
                          <<>>)
         /\ UNCHANGED <<owner, surveyCreator, surveyQuestion, isConfigured,
                        isFinalized>>
    ELSE /\ tx' = Reverted("submitVote", sender, <<k, proofOk>>, err)
         /\ UNCHANGED storage

\* ------------------------------------------------------- finalizeSurvey
\* faulty variant: the isConfigured check left out
FinalizeCheck_NoConfiguredCheck ==
    IF isFinalized THEN "SurveyClosed" ELSE "ok"

FinalizeCheck ==
    IF ~isConfigured THEN "SurveyNotConfigured"
    ELSE IF isFinalized THEN "SurveyClosed"
    ELSE "ok"

\* faulty variant: callers other than the owner are refused with NotOwner
FinalizeSurvey_OwnerOnly(sender) ==
    LET err == IF sender # owner THEN "NotOwner" ELSE FinalizeCheck IN
    IF err = "ok"
    THEN /\ isFinalized' = TRUE
         /\ tx' = Receipt("finalizeSurvey", sender, <<>>, "ok",
                          <<[name |-> "SurveyFinalized", who |-> sender]>>, <<>>)
         /\ UNCHANGED <<owner, surveyCreator, surveyQuestion, options, isConfigured,
                        hasVoted, optionHasVotes, acl, acceptedVotes, ballots>>
    ELSE /\ tx' = Reverted("finalizeSurvey", sender, <<>>, err)
         /\ UNCHANGED storage

\* faulty variant: the SurveyFinalized event is not emitted
FinalizeSurvey_NoEvent(sender) ==
    LET err == FinalizeCheck IN
    IF err = "ok"
    THEN /\ isFinalized' = TRUE
         /\ tx' = Receipt("finalizeSurvey", sender, <<>>, "ok", <<>>, <<>>)
         /\ UNCHANGED <<owner, surveyCreator, surveyQuestion, options, isConfigured,
                        hasVoted, optionHasVotes, acl, acceptedVotes, ballots>>
    ELSE /\ tx' = Reverted("finalizeSurvey", sender, <<>>, err)
         /\ UNCHANGED storage

\* faulty variant: closing the survey wipes the access-control list
FinalizeSurvey_ClearsGrants(sender) ==
    LET err == FinalizeCheck IN
    IF err = "ok"
    THEN /\ isFinalized' = TRUE
         /\ acl' = {}
         /\ tx' = Receipt("finalizeSurvey", sender, <<>>, "ok",
                          <<[name |-> "SurveyFinalized", who |-> sender]>>, <<>>)
         /\ UNCHANGED <<owner, surveyCreator, surveyQuestion, options, isConfigured,
                        hasVoted, optionHasVotes, acceptedVotes, ballots>>
    ELSE /\ tx' = Reverted("finalizeSurvey", sender, <<>>, err)
         /\ UNCHANGED storage

FinalizeSurvey(sender) ==
    LET err == FinalizeCheck IN
    IF err = "ok"
    THEN /\ isFinalized' = TRUE
         /\ tx' = Receipt("finalizeSurvey", sender, <<>>, "ok",
                          <<[name |-> "SurveyFinalized", who |-> sender]>>, <<>>)
         /\ UNCHANGED <<owner, surveyCreator, surveyQuestion, options, isConfigured,
                        hasVoted, optionHasVotes, acl, acceptedVotes, ballots>>
    ELSE /\ tx' = Reverted("finalizeSurvey", sender, <<>>, err)
         /\ UNCHANGED storage

\* ------------------------------------- allowResultFor / allowResultForSelf
\* faulty variant: the optionHasVotes check left out
AllowResultCheck_NoVotesCheck(k) ==
    IF ~isConfigured THEN "SurveyNotConfigured"
    ELSE IF k >= Len(options) THEN "InvalidOption"
    ELSE "ok"

\* faulty variant: grants refused once the survey is finalized
AllowResultCheck_ClosedAfterFinalize(k) ==
    IF ~isConfigured THEN "SurveyNotConfigured"
    ELSE IF isFinalized THEN "SurveyClosed"
    ELSE IF k >= Len(options) THEN "InvalidOption"
    ELSE IF ~optionHasVotes[k] THEN "SurveyNotConfigured"
    ELSE "ok"

\* faulty variant: the index check placed before the isConfigured check
AllowResultCheck_IndexFirst(k) ==
    IF k >= Len(options) THEN "InvalidOption"
    ELSE IF ~isConfigured THEN "SurveyNotConfigured"
    ELSE IF ~optionHasVotes[k] THEN "SurveyNotConfigured"
    ELSE "ok"

\* faulty variant: the optionHasVotes check placed before the index check
AllowResultCheck_VotesFirst(k) ==
    IF ~isConfigured THEN "SurveyNotConfigured"
    ELSE IF ~optionHasVotes[k] THEN "SurveyNotConfigured"
    ELSE IF k >= Len(options) THEN "InvalidOption"
    ELSE "ok"

\* the three checks shared, line for line, by both functions
AllowResultCheck(k) ==
    IF ~isConfigured THEN "SurveyNotConfigured"
    ELSE IF k >= Len(options) THEN "InvalidOption"
    ELSE IF ~optionHasVotes[k] THEN "SurveyNotConfigured"
    ELSE "ok"

AllowResultFor(sender, grantee, k) ==
    LET err == AllowResultCheck(k) IN
    IF err = "ok"
    THEN /\ acl' = FHEAllow(acl, OptionAt(k).encryptedTotal, grantee)
         /\ tx' = Receipt("allowResultFor", sender, <<grantee, k>>, "ok",
                          <<[name |-> "ResultAccessGranted", who |-> grantee,
                             idx |-> k]>>, <<>>)
         /\ UNCHANGED <<owner, surveyCreator, surveyQuestion, options, isConfigured,
                        isFinalized, hasVoted, optionHasVotes, acceptedVotes, ballots>>
    ELSE /\ tx' = Reverted("allowResultFor", sender, <<grantee, k>>, err)
         /\ UNCHANGED storage

AllowResultForSelf(sender, k) ==
    LET err == AllowResultCheck(k) IN
    IF err = "ok"
    THEN /\ acl' = FHEAllow(acl, OptionAt(k).encryptedTotal, sender)
         /\ tx' = Receipt("allowResultForSelf", sender, <<k>>, "ok",
                          <<[name |-> "SelfAccessGranted", who |-> sender,
                             idx |-> k]>>, <<>>)
         /\ UNCHANGED <<owner, surveyCreator, surveyQuestion, options, isConfigured,
                        isFinalized, hasVoted, optionHasVotes, acceptedVotes, ballots>>
    ELSE /\ tx' = Reverted("allowResultForSelf", sender, <<k>>, err)
         /\ UNCHANGED storage

\* ------------------------------------------------ allowAllResultsForSelf
\* faulty variant: the loop grants every option, with or without votes
RECURSIVE AllowAllLoop_IgnoresVotes(_, _, _, _)
AllowAllLoop_IgnoresVotes(sender, i, list, events) ==
    IF i >= Len(options) THEN [acl |-> list, events |-> events]
    ELSE AllowAllLoop_IgnoresVotes(sender, i + 1,
                           FHEAllow(list, OptionAt(i).encryptedTotal, sender),
                           Append(events, [name |-> "SelfAccessGranted",
                                           who |-> sender, idx |-> i]))

\* the loop over i = from .. _options.length - 1: the ACL and the events so far
RECURSIVE AllowAllLoop(_, _, _, _)
AllowAllLoop(sender, i, list, events) ==
    IF i >= Len(options) THEN [acl |-> list, events |-> events]
    ELSE IF optionHasVotes[i]
         THEN AllowAllLoop(sender, i + 1,
                           FHEAllow(list, OptionAt(i).encryptedTotal, sender),
                           Append(events, [name |-> "SelfAccessGranted",
                                           who |-> sender, idx |-> i]))
         ELSE AllowAllLoop(sender, i + 1, list, events)

\* faulty variant: the call is refused once the survey is finalized
AllowAllResultsForSelf_ClosedAfterFinalize(sender) ==
    IF ~isConfigured \/ isFinalized
    THEN /\ tx' = Reverted("allowAllResultsForSelf", sender, <<>>,
                           IF isFinalized THEN "SurveyClosed"
                           ELSE "SurveyNotConfigured")
         /\ UNCHANGED storage
    ELSE LET done == AllowAllLoop(sender, 0, acl, <<>>)
             hasAnyVotes == done.events # <<>>
         IN  IF hasAnyVotes
             THEN /\ acl' = done.acl
                  /\ tx' = Receipt("allowAllResultsForSelf", sender, <<>>, "ok",
                                   done.events, <<>>)
                  /\ UNCHANGED <<owner, surveyCreator, surveyQuestion, options,
                                 isConfigured, isFinalized, hasVoted,
                                 optionHasVotes, acceptedVotes, ballots>>
             ELSE /\ tx' = Reverted("allowAllResultsForSelf", sender, <<>>,
                                    "SurveyNotConfigured")
                  /\ UNCHANGED storage

AllowAllResultsForSelf(sender) ==
    IF ~isConfigured
    THEN /\ tx' = Reverted("allowAllResultsForSelf", sender, <<>>,
                           "SurveyNotConfigured")
         /\ UNCHANGED storage
    ELSE LET done == AllowAllLoop(sender, 0, acl, <<>>)
             hasAnyVotes == done.events # <<>>
         IN  IF hasAnyVotes
             THEN /\ acl' = done.acl
                  /\ tx' = Receipt("allowAllResultsForSelf", sender, <<>>, "ok",
                                   done.events, <<>>)
                  /\ UNCHANGED <<owner, surveyCreator, surveyQuestion, options,
                                 isConfigured, isFinalized, hasVoted,
                                 optionHasVotes, acceptedVotes, ballots>>
             ELSE /\ tx' = Reverted("allowAllResultsForSelf", sender, <<>>,
                                    "SurveyNotConfigured")
                  /\ UNCHANGED storage

\* ------------------------------------------------------- view functions
GetOptionLabels ==
    /\ tx' = IF ~isConfigured
             THEN Reverted("getOptionLabels", ZeroAddr, <<>>, "SurveyNotConfigured")
             ELSE Receipt("getOptionLabels", ZeroAddr, <<>>, "ok", <<>>,
                          <<[i \in 1..Len(options) |-> options[i].label]>>)
    /\ UNCHANGED storage

GetEncryptedTotal(k) ==
    /\ tx' = IF ~isConfigured
             THEN Reverted("getEncryptedTotal", ZeroAddr, <<k>>, "SurveyNotConfigured")
             ELSE IF k >= Len(options)
             THEN Reverted("getEncryptedTotal", ZeroAddr, <<k>>, "InvalidOption")
             ELSE Receipt("getEncryptedTotal", ZeroAddr, <<k>>, "ok", <<>>,
                          <<OptionAt(k).encryptedTotal>>)
    /\ UNCHANGED storage

OptionCount ==
    /\ tx' = IF ~isConfigured
             THEN Reverted("optionCount", ZeroAddr, <<>>, "SurveyNotConfigured")
             ELSE Receipt("optionCount", ZeroAddr, <<>>, "ok", <<>>, <<Len(options)>>)
    /\ UNCHANGED storage

HasVoterSubmitted(voter) ==
    /\ tx' = Receipt("hasVoterSubmitted", ZeroAddr, <<voter>>, "ok", <<>>,
                     <<hasVoted[voter]>>)
    /\ UNCHANGED storage

\* ----------------------------------------------------------------- Next
\* the contract's transactions; the dashboard's state is no part of them
Next ==
    \/ \E s \in Addr, q \in Questions, l \in LabelLists :
          ConfigureSurvey(s, q, l) /\ UNCHANGED dash
    \/ \E s \in Addr, k \in Indices, v \in VoteValues, p \in BOOLEAN :
          SubmitVote(s, k, v, p) /\ UNCHANGED dash
    \/ \E s \in Addr : FinalizeSurvey(s) /\ UNCHANGED dash
    \/ \E s \in Addr, g \in Grantees, k \in Indices :
          AllowResultFor(s, g, k) /\ UNCHANGED dash
    \/ \E s \in Addr, k \in Indices : AllowResultForSelf(s, k) /\ UNCHANGED dash
    \/ \E s \in Addr : AllowAllResultsForSelf(s) /\ UNCHANGED dash
    \/ GetOptionLabels /\ UNCHANGED dash
    \/ \E k \in Indices : GetEncryptedTotal(k) /\ UNCHANGED dash
    \/ OptionCount /\ UNCHANGED dash
    \/ \E a \in Addr : HasVoterSubmitted(a) /\ UNCHANGED dash

Spec == Init /\ [][Next]_vars

\* ------------------------------------------- dashboard: the signer effect
\* the cleanup of the effect: cancelled = true in the closure of its run
Cleanup(runs) == [r \in 1..Len(runs) |-> [runs[r] EXCEPT !.cancelled = TRUE]]

\* useWalletClient returns another value c: React runs the cleanup of the
\* previous effect, then the effect again, whose syncSigner either clears the
\* state (no wallet client) or stops at its await
WalletClientChanges(c) ==
    /\ mounted
    /\ c # walletClient
    /\ c # Undefined => Len(syncRuns) < MaxRuns
    /\ walletClient' = c
    /\ IF c = Undefined
       THEN /\ ethersSigner' = Undefined
            /\ ethersProvider' = Undefined
            /\ providerReady' = FALSE
            /\ syncRuns' = Cleanup(syncRuns)
            /\ lastSync' = SyncStep("clear", 0, TRUE)
       ELSE /\ syncRuns' = Append(Cleanup(syncRuns),
                                  [client |-> c, cancelled |-> FALSE,
                                   pc |-> "await"])
            /\ lastSync' = SyncStep("start", Len(syncRuns) + 1, FALSE)
            /\ UNCHANGED <<ethersSigner, ethersProvider, providerReady>>
    /\ UNCHANGED <<mounted, vars>>

\* faulty variant: the continuation sets the state without reading cancelled
SignerResolves_IgnoresCancelled(r) ==
    /\ r \in 1..Len(syncRuns)
    /\ syncRuns[r].pc = "await"
    /\ syncRuns' = [syncRuns EXCEPT ![r].pc = "done"]
    /\ ethersSigner' = SignerOf(syncRuns[r].client)
    /\ ethersProvider' = ProviderOf(syncRuns[r].client)
    /\ providerReady' = TRUE
    /\ lastSync' = SyncStep("resolve", r, TRUE)
    /\ UNCHANGED <<walletClient, mounted, vars>>

\* walletClientToEthers of run r resolves: the three setState calls, unless
\* the run was cancelled
SignerResolves(r) ==
    /\ r \in 1..Len(syncRuns)
    /\ syncRuns[r].pc = "await"
    /\ syncRuns' = [syncRuns EXCEPT ![r].pc = "done"]
    /\ IF syncRuns[r].cancelled
       THEN /\ lastSync' = SyncStep("resolve", r, FALSE)
            /\ UNCHANGED <<ethersSigner, ethersProvider, providerReady>>
       ELSE /\ ethersSigner' = SignerOf(syncRuns[r].client)
            /\ ethersProvider' = ProviderOf(syncRuns[r].client)
            /\ providerReady' = TRUE
            /\ lastSync' = SyncStep("resolve", r, TRUE)
    /\ UNCHANGED <<walletClient, mounted, vars>>

\* walletClientToEthers of run r throws: the catch branch clears the state,
\* unless the run was cancelled
SignerRejects(r) ==
    /\ r \in 1..Len(syncRuns)
    /\ syncRuns[r].pc = "await"
    /\ syncRuns' = [syncRuns EXCEPT ![r].pc = "done"]
    /\ IF syncRuns[r].cancelled
       THEN /\ lastSync' = SyncStep("reject", r, FALSE)
            /\ UNCHANGED <<ethersSigner, ethersProvider, providerReady>>
       ELSE /\ ethersSigner' = Undefined
            /\ ethersProvider' = Undefined
            /\ providerReady' = FALSE
            /\ lastSync' = SyncStep("reject", r, TRUE)
    /\ UNCHANGED <<walletClient, mounted, vars>>

\* the component unmounts: React runs the cleanup of the last effect
Unmount ==
    /\ mounted
    /\ mounted' = FALSE
    /\ syncRuns' = Cleanup(syncRuns)
    /\ lastSync' = SyncStep("unmount", 0, FALSE)
    /\ UNCHANGED <<walletClient, ethersSigner, ethersProvider, providerReady, vars>>

DashNext ==
    \/ \E c \in Clients \cup {Undefined} : WalletClientChanges(c)
    \/ \E r \in 1..MaxRuns : SignerResolves(r)
    \/ \E r \in 1..MaxRuns : SignerRejects(r)
    \/ Unmount

DashSpec == Init /\ [][DashNext]_<<vars, dash>>

\* ================================================================ claims
\* the lifecycle phase of section 4.1, read off the two flags
Phase ==
    IF ~isConfigured THEN "Unconfigured"
    ELSE IF isFinalized THEN "Finalized"
    ELSE "Configured"

\* the number of accepted votes of the identities in S
RECURSIVE SumAccepted(_)
SumAccepted(S) ==
    IF S = {} THEN 0
    ELSE LET i == CHOOSE x \in S : TRUE IN acceptedVotes[i] + SumAccepted(S \ {i})

\* identity g may decrypt the current accumulator of option k
Granted(k, g) == <<OptionAt(k).encryptedTotal, g>> \in acl

\* the ciphertexts identity a may decrypt, and the public, known zero
Readable(a) == {ZeroCipher} \cup {p[1] : p \in {q \in acl : q[2] = a}}

\* identity a can work out the value of voter v's single vote: it may decrypt
\* two totals (one possibly the known zero) that differ by exactly v's vote
Determines(a, v) ==
    \E h1 \in Readable(a), h2 \in Readable(a) :
        v \notin h1.voters /\ h2.voters = h1.voters \cup {v}

\* C1 (as claimed): once a submitVote by identity i has been accepted, every
\* later submitVote by i fails with AlreadyVoted, in any later state,
\* including after finalize.
C1_AlwaysAlreadyVoted ==
    [][\A i \in Addr :
          (acceptedVotes[i] >= 1 /\ tx'.op = "submitVote" /\ tx'.sender = i)
              => tx'.result = "AlreadyVoted"]_vars

\* C1 (amended): once a submitVote by identity i has been accepted, every
\* later submitVote by i is rejected whatever the option index and the proof:
\* with AlreadyVoted while the survey is not finalized, and with SurveyClosed
\* once it is finalized.
C1_NeverVotesTwice ==
    [][\A i \in Addr :
          (acceptedVotes[i] >= 1 /\ tx'.op = "submitVote" /\ tx'.sender = i)
              => /\ tx'.result = (IF isFinalized THEN "SurveyClosed"
                                  ELSE "AlreadyVoted")
                 /\ acceptedVotes' = acceptedVotes]_vars

\* a voter's second submission, for an option it did not vote for, was
\* rejected with AlreadyVoted
C1_Witness ==
    /\ tx.op = "submitVote"
    /\ tx.result = "AlreadyVoted"
    /\ acceptedVotes[tx.sender] = 1
    /\ tx.args[1] < Len(options)
    /\ tx.sender \notin OptionAt(tx.args[1]).encryptedTotal.voters

\* C2: under any interleaving of submitVote calls at most one vote per
\* identity is accepted: the number of accepted votes equals the number of
\* identities whose voter record is true.
C2_OneVotePerIdentity ==
    /\ \A i \in Addr : acceptedVotes[i] <= 1
    /\ SumAccepted(Addr) = Cardinality({i \in Addr : hasVoted[i]})

\* every identity has voted, and a further submission was just turned down
C2_Witness ==
    /\ \A i \in Addr : hasVoted[i] /\ acceptedVotes[i] = 1
    /\ tx.op = "submitVote"
    /\ tx.result # "ok"

\* C3: after the first successful configure, every later configure call (any
\* caller, any question, any number of labels, fewer than 2 included) fails
\* with SurveyClosed and changes nothing; configured never becomes false.
C3_ConfigureOnce ==
    [][isConfigured =>
          /\ isConfigured'
          /\ tx'.op = "configureSurvey"
                => tx'.result = "SurveyClosed" /\ UNCHANGED storage]_vars

\* a configure call with fewer than 2 labels on a configured survey was
\* rejected with SurveyClosed
C3_Witness ==
    /\ isConfigured
    /\ tx.op = "configureSurvey"
    /\ tx.result = "SurveyClosed"
    /\ Len(tx.args[2]) < MinOptions

\* C4: the only phase changes are Unconfigured -> Configured, by a successful
\* configure, and Configured -> Finalized, by a successful finalize; neither
\* flag goes from true to false and Finalized is never left.
C4_LinearLifecycle ==
    [][/\ isConfigured => isConfigured'
       /\ isFinalized => isFinalized'
       /\ Phase' # Phase =>
            \/ /\ Phase = "Unconfigured" /\ Phase' = "Configured"
               /\ tx'.op = "configureSurvey" /\ tx'.result = "ok"
            \/ /\ Phase = "Configured" /\ Phase' = "Finalized"
               /\ tx'.op = "finalizeSurvey" /\ tx'.result = "ok"]_vars

\* the survey went through both transitions and has just been finalized
C4_Witness ==
    /\ Phase = "Finalized"
    /\ tx.op = "finalizeSurvey"
    /\ tx.result = "ok"

\* C5: submitVote fails with SurveyNotConfigured in every state before a
\* successful configure and with SurveyClosed in every state after a
\* successful finalize, whatever the caller, index and proof.
C5_VoteOutsideOpenPhase ==
    [][tx'.op = "submitVote" =>
          /\ ~isConfigured => tx'.result = "SurveyNotConfigured"
          /\ isFinalized => tx'.result = "SurveyClosed"]_vars

\* an otherwise acceptable vote (new voter, valid index, valid proof) was
\* rejected with SurveyClosed on a finalized survey
C5_Witness ==
    /\ isFinalized
    /\ tx.op = "submitVote"
    /\ tx.result = "SurveyClosed"
    /\ ~hasVoted[tx.sender]
    /\ tx.args[1] < Len(options)
    /\ tx.args[2]

\* C6: a submitVote that fails, for whatever reason, leaves the whole state
\* unchanged (accumulators, hasVotes flags, voter records, grants) and emits
\* no event; a rejected vote for option k never sets hasVotes[k].
C6_FailedVoteChangesNothing ==
    [][(tx'.op = "submitVote" /\ tx'.result # "ok")
          => UNCHANGED storage /\ tx'.events = <<>>]_vars

\* scenario B: a second vote, for an option without votes, was rejected and
\* that option still has no votes
C6_Witness ==
    /\ tx.op = "submitVote"
    /\ tx.result = "AlreadyVoted"
    /\ tx.args[1] < Len(options)
    /\ ~optionHasVotes[tx.args[1]]
    /\ \E k \in Indices : optionHasVotes[k]

\* C7: after a successful finalize no vote is accepted, so the accumulators,
\* the hasVotes flags and the voter records keep their values at
\* finalization; getEncryptedTotal(k) for a valid k still succeeds and
\* returns that accumulator.
C7_FrozenAfterFinalize ==
    [][isFinalized =>
          /\ UNCHANGED <<options, optionHasVotes, hasVoted, acceptedVotes, ballots>>
          /\ tx'.op = "submitVote" => tx'.result # "ok"
          /\ (tx'.op = "getEncryptedTotal" /\ tx'.args[1] < Len(options))
                => /\ tx'.result = "ok"
                   /\ tx'.ret = <<OptionAt(tx'.args[1]).encryptedTotal>>]_vars

\* scenario D: on a finalized survey getEncryptedTotal returned an
\* accumulator that holds votes
C7_Witness ==
    /\ isFinalized
    /\ tx.op = "getEncryptedTotal"
    /\ tx.result = "ok"
    /\ tx.ret[1].voters # {}
    /\ tx.ret[1] = OptionAt(tx.args[1]).encryptedTotal

\* C8 (as claimed): no identity other than the voter may decrypt values that
\* determine a single voter's contribution: an accumulator holding exactly
\* one vote, or two accumulators that differ by one vote.
C8_VotePrivacy ==
    \A a \in Addr, v \in Addr : Determines(a, v) => a = v

\* C9: a decrypt grant on option k exists only if option k has received an
\* accepted vote: Granted(k, g) implies optionHasVotes[k], for every option k
\* and every address g.
C9_GrantOnlyWithVotes ==
    \A k \in Indices, g \in Addr \cup {ZeroAddr, ThisAddr} :
        (k < Len(options) /\ Granted(k, g)) => optionHasVotes[k]

\* a third party (neither owner nor creator) holds a grant on an option,
\* while another option has no votes and no grant
C9_Witness ==
    /\ \E k \in Indices, g \in Addr :
          /\ k < Len(options) /\ Granted(k, g)
          /\ g # owner /\ g # surveyCreator
    /\ \E k \in Indices : k < Len(options) /\ ~optionHasVotes[k]

\* the option index of a grantTo / grantToSelf call
GrantIndex(t) == IF t.op = "allowResultFor" THEN t.args[2] ELSE t.args[1]

\* the grantee of a grantTo / grantToSelf call
GrantTarget(t) == IF t.op = "allowResultFor" THEN t.args[1] ELSE t.sender

\* C10: on a configured survey, grantTo(g, k) and grantToSelf(k) with a valid
\* index k fail with SurveyNotConfigured when option k has no accepted vote,
\* and succeed, for every caller and grantee, when hasVotes[k] is true,
\* before and after finalize; a success leaves the grantee authorized.
C10_GrantEligibility ==
    [][(/\ tx'.op \in {"allowResultFor", "allowResultForSelf"}
        /\ isConfigured
        /\ GrantIndex(tx') < Len(options))
          => IF optionHasVotes[GrantIndex(tx')]
             THEN /\ tx'.result = "ok"
                  /\ <<OptionAt(GrantIndex(tx')).encryptedTotal, GrantTarget(tx')>>
                        \in acl'
             ELSE /\ tx'.result = "SurveyNotConfigured"
                  /\ acl' = acl]_vars

\* scenario C after finalize: a caller granted a third party access to an
\* option with votes on a finalized survey
C10_Witness ==
    /\ isFinalized
    /\ tx.op = "allowResultFor"
    /\ tx.result = "ok"
    /\ tx.sender # tx.args[1]
    /\ optionHasVotes[tx.args[2]]

\* C11: granting is idempotent: a grantTo(g, k) or grantToSelf(k) for an
\* identity that already holds the grant on option k succeeds again and
\* changes nothing of the state (grants, accumulators, flags, voter records).
C11_GrantIdempotent ==
    [][(/\ tx'.op \in {"allowResultFor", "allowResultForSelf"}
        /\ isConfigured
        /\ GrantIndex(tx') < Len(options)
        /\ Granted(GrantIndex(tx'), GrantTarget(tx')))
          => tx'.result = "ok" /\ UNCHANGED storage]_vars

\* the owner, who holds the grant on the current total since the vote that
\* produced it, was granted it again by another account
C11_Witness ==
    /\ tx.op = "allowResultFor"
    /\ tx.result = "ok"
    /\ tx.args[1] = owner
    /\ tx.sender # owner
    /\ Granted(tx.args[2], owner)

\* the options with votes, by index
VotedOptions == {k \in Indices : k < Len(options) /\ optionHasVotes[k]}

\* C12: a successful grantAllToSelf grants the caller exactly the options with
\* hasVotes true (each of them, and nothing else), with one event per such
\* option; it fails, with SurveyNotConfigured and changing nothing, exactly
\* when no option has votes.
C12_GrantAllExact ==
    [][tx'.op = "allowAllResultsForSelf" =>
          IF VotedOptions # {}
          THEN /\ tx'.result = "ok"
               /\ acl' = acl \cup {<<OptionAt(k).encryptedTotal, tx'.sender>> :
                                     k \in VotedOptions}
               /\ {e.idx : e \in {tx'.events[n] : n \in 1..Len(tx'.events)}}
                     = VotedOptions
               /\ UNCHANGED <<owner, surveyCreator, surveyQuestion, options,
                              isConfigured, isFinalized, hasVoted, optionHasVotes,
                              acceptedVotes, ballots>>
          ELSE /\ tx'.result = "SurveyNotConfigured"
               /\ UNCHANGED storage]_vars

\* a third party took all grants at once while one option had votes and
\* another had none: it holds the first and not the second
C12_Witness ==
    /\ tx.op = "allowAllResultsForSelf"
    /\ tx.result = "ok"
    /\ tx.sender \notin {owner, surveyCreator}
    /\ \E k \in VotedOptions : Granted(k, tx.sender)
    /\ \E k \in Indices :
          k < Len(options) /\ ~optionHasVotes[k] /\ ~Granted(k, tx.sender)

C14_OwnerCreatorAuthorized ==
    \A k \in VotedOptions : Granted(k, owner) /\ Granted(k, surveyCreator)

\* an option holds two votes and owner and creator are different accounts
C14_Witness ==
    /\ owner # surveyCreator
    /\ \E k \in VotedOptions :
          /\ Cardinality(OptionAt(k).encryptedTotal.voters) = 2
          /\ Granted(k, owner) /\ Granted(k, surveyCreator)

ConfiguredOutcome(t) ==
    CASE t.op = "getOptionLabels" -> "ok"
      [] t.op = "optionCount" -> "ok"
      [] t.op = "hasVoterSubmitted" -> "ok"
      [] t.op = "getEncryptedTotal" ->
            IF t.args[1] < Len(options) THEN "ok" ELSE "InvalidOption"
      [] t.op \in {"allowResultFor", "allowResultForSelf"} ->
            IF GrantIndex(t) >= Len(options) THEN "InvalidOption"
            ELSE IF optionHasVotes[GrantIndex(t)] THEN "ok"
            ELSE "SurveyNotConfigured"
      [] t.op = "allowAllResultsForSelf" ->
            IF VotedOptions # {} THEN "ok" ELSE "SurveyNotConfigured"

\* identity g may decrypt option k's accumulator after the step
GrantedAfter(k, g) == <<options'[k + 1].encryptedTotal, g>> \in acl'

QueryAndGrantOps ==
    {"getOptionLabels", "optionCount", "hasVoterSubmitted", "getEncryptedTotal",
     "allowResultFor", "allowResultForSelf", "allowAllResultsForSelf"}

\* C16: after finalize, queries and grants remain available: getOptionLabels,
\* optionCount, getEncryptedTotal, hasVoterSubmitted, grantTo, grantToSelf and
\* grantAllToSelf succeed in Finalized under exactly the conditions under
\* which they succeed in Configured (conditions that do not mention the
\* finalized flag), and a grant made in Finalized takes effect.
C16_AvailableAfterFinalize ==
    [][(isConfigured /\ tx'.op \in QueryAndGrantOps) =>
          /\ tx'.result = ConfiguredOutcome(tx')
          /\ (tx'.result = "ok" /\ tx'.op = "allowAllResultsForSelf")
                => \A k \in VotedOptions : GrantedAfter(k, tx'.sender)
          /\ (tx'.result = "ok" /\ tx'.op \in {"allowResultFor",
                                                "allowResultForSelf"})
                => GrantedAfter(GrantIndex(tx'), GrantTarget(tx'))]_vars

\* on a finalized survey a third party took all grants at once
C16_Witness ==
    /\ isFinalized
    /\ tx.op = "allowAllResultsForSelf"
    /\ tx.result = "ok"
    /\ tx.sender \notin {owner, surveyCreator}
    /\ \A k \in VotedOptions : Granted(k, tx.sender)

\* C17: configure called in Unconfigured with fewer than 2 labels fails with
\* InvalidOption and leaves the survey Unconfigured with no options, question
\* or creator recorded; a configure with at least 2 labels called in
\* Unconfigured (so also after such a failure) succeeds.
C17_ShortConfigureRejected ==
    [][(~isConfigured /\ tx'.op = "configureSurvey") =>
          IF Len(tx'.args[2]) < MinOptions
          THEN /\ tx'.result = "InvalidOption"
               /\ UNCHANGED storage
               /\ ~isConfigured' /\ options' = <<>>
               /\ surveyQuestion' = "" /\ surveyCreator' = ZeroAddr
          ELSE tx'.result = "ok" /\ isConfigured']_vars

\* a configure with one label was rejected with InvalidOption and the survey
\* is still unconfigured and empty
C17_Witness ==
    /\ tx.op = "configureSurvey"
    /\ tx.result = "InvalidOption"
    /\ Len(tx.args[2]) = 1
    /\ ~isConfigured /\ options = <<>> /\ surveyCreator = ZeroAddr

\* the labels of the options, in order
Labels == [i \in 1..Len(options) |-> options[i].label]

\* C18: a configured survey has at least 2 options, and the option list is
\* stable: a successful configure stores exactly the labels passed to it, in
\* order, the labels never change afterwards, and optionCount and
\* getOptionLabels return their number and the labels themselves.
C18_OptionsStable ==
    [][/\ isConfigured' => Len(options') >= MinOptions
       /\ (tx'.op = "configureSurvey" /\ tx'.result = "ok")
             => Labels' = tx'.args[2]
       /\ isConfigured => Labels' = Labels
       /\ (isConfigured /\ tx'.op = "optionCount")
             => tx'.result = "ok" /\ tx'.ret = <<Len(Labels)>>
       /\ (isConfigured /\ tx'.op = "getOptionLabels")
             => tx'.result = "ok" /\ tx'.ret = <<Labels>>]_vars

\* after votes and finalize, getOptionLabels returned the configured labels,
\* Red before Blue
C18_Witness ==
    /\ isFinalized
    /\ VotedOptions # {}
    /\ tx.op = "getOptionLabels"
    /\ tx.result = "ok"
    /\ tx.ret[1][1] = "Red" /\ tx.ret[1][2] = "Blue"

\* C19: while the survey is Unconfigured every grant operation and every
\* option query fails with SurveyNotConfigured whatever its arguments (an
\* out-of-range index included) and changes nothing; hasVoterSubmitted never
\* fails, in any state, and returns the voter's record.
C19_UnconfiguredRejects ==
    [][/\ (~isConfigured /\ tx'.op \in QueryAndGrantOps \ {"hasVoterSubmitted"})
             => tx'.result = "SurveyNotConfigured" /\ UNCHANGED storage
       /\ tx'.op = "hasVoterSubmitted"
             => tx'.result = "ok" /\ tx'.ret = <<hasVoted[tx'.args[1]]>>]_vars

\* a grantTo with an index past every option list was rejected on an
\* unconfigured survey with SurveyNotConfigured
C19_Witness ==
    /\ ~isConfigured
    /\ tx.op = "allowResultFor"
    /\ tx.result = "SurveyNotConfigured"
    /\ tx.args[2] = MaxLabels

\* C20: a voter record is set only by an accepted vote of that identity and
\* is never reset: the record of i is true exactly when a submitVote by i has
\* been accepted, an accepted vote changes no other identity's record, and
\* hasVoterSubmitted(i) returns the record.
C20_VoterRecord ==
    [][/\ \A i \in Addr :
             /\ hasVoted'[i] <=> acceptedVotes'[i] >= 1
             /\ hasVoted[i] => hasVoted'[i]
             /\ hasVoted'[i] # hasVoted[i]
                   => /\ tx'.op = "submitVote" /\ tx'.result = "ok"
                      /\ tx'.sender = i
       /\ tx'.op = "hasVoterSubmitted"
             => tx'.ret = <<acceptedVotes[tx'.args[1]] >= 1>>]_vars

\* scenario A: one identity has voted and hasVoterSubmitted returned false
\* for another
C20_Witness ==
    /\ tx.op = "hasVoterSubmitted"
    /\ tx.ret = <<FALSE>>
    /\ \E i \in Addr : i # tx.args[1] /\ hasVoted[i] /\ acceptedVotes[i] = 1

\* ---------------------------------------------------------------- C21
\* the accepted votes for option k, each named by its voter and its position
\* among that voter's accepted votes
BallotsFor(k) ==
    UNION {{<<i, n>> : n \in {m \in 1..Len(ballots[i]) : ballots[i][m][1] = k}} :
           i \in Addr}

\* the plaintext that accepted vote b carried
BallotValue(b) == ballots[b[1]][b[2]][2]

\* C21: in every state hasVotes[k] is true exactly when at least one vote for
\* option k has been accepted, and no step turns a true hasVotes[k] false
C21_HasVotesExact ==
    [][\A k \in Indices :
          /\ optionHasVotes[k] <=> BallotsFor(k) # {}
          /\ optionHasVotes'[k] <=> BallotsFor(k)' # {}
          /\ optionHasVotes[k] => optionHasVotes'[k]]_vars

\* C21 witness: one option has taken the votes of both identities and its flag
\* is set, another option has taken none and its flag is clear
C21_Witness ==
    \E k, j \in Indices :
        /\ k < Len(options) /\ j < Len(options)
        /\ optionHasVotes[k] /\ Cardinality(BallotsFor(k)) = 2
        /\ ~optionHasVotes[j] /\ BallotsFor(j) = {}

\* ---------------------------------------------------------------- C22
\* a small number n as a uint32
U32(n) == <<n \div Limb, n % Limb>>

Orders(S) ==
    {s \in [1..Cardinality(S) -> S] :
        \A m, n \in 1..Cardinality(S) : s[m] = s[n] => m = n}

\* the accumulator after the first n votes of the order ord, starting from an
\* uninitialised total
RECURSIVE TotalAfter(_, _)
TotalAfter(ord, n) ==
    IF n = 0 THEN ZeroCipher
    ELSE FHEAdd(TotalAfter(ord, n - 1), BallotValue(ord[n]), ord[n][1])

\* C23: whatever the order in which the accepted votes for an option are
\* submitted, the accumulator ends with the value the contract holds; the
\* hasVotes flags and the voter records depend only on the set of accepted votes
C23_OrderIndependent ==
    /\ \A k \in Indices :
          k < Len(options) =>
              /\ \A ord \in Orders(BallotsFor(k)) :
                    TotalAfter(ord, Cardinality(BallotsFor(k))).value
                        = OptionAt(k).encryptedTotal.value
              /\ optionHasVotes[k] <=> BallotsFor(k) # {}
    /\ \A i \in Addr : hasVoted[i] <=> ballots[i] # <<>>

\* C23 witness: one option has taken two votes of different values, by
\* different identities
C23_Witness ==
    \E k \in Indices :
        /\ k < Len(options)
        /\ \E b, c \in BallotsFor(k) : b[1] # c[1] /\ BallotValue(b) # BallotValue(c)

C25_OwnerOnly ==
    [][(tx'.op \in {"configureSurvey", "finalizeSurvey"} /\ tx'.sender # owner) =>
          (tx'.result # "ok" /\ UNCHANGED storage)]_vars

\* ---------------------------------------------------------------- C26
\* C26: submitVote reports the first violation in the order not configured
\* (SurveyNotConfigured), finalized (SurveyClosed), caller already voted
\* (AlreadyVoted), option index out of range (InvalidOption), invalid proof
\* (InvalidProof), and succeeds when there is none
C26_SubmitVoteCheckOrder ==
    [][tx'.op = "submitVote" =>
          tx'.result =
             IF Phase = "Unconfigured" THEN "SurveyNotConfigured"
             ELSE IF Phase = "Finalized" THEN "SurveyClosed"
             ELSE IF hasVoted[tx'.sender] THEN "AlreadyVoted"
             ELSE IF tx'.args[1] >= Len(options) THEN "InvalidOption"
             ELSE IF ~tx'.args[2] THEN "InvalidProof"
             ELSE "ok"]_vars

\* C26 witness: on an open survey an identity that has voted submits an
\* out-of-range index with an invalid proof and is told AlreadyVoted
C26_Witness ==
    /\ Phase = "Configured"
    /\ tx.op = "submitVote"
    /\ hasVoted[tx.sender]
    /\ tx.args[1] >= Len(options)
    /\ ~tx.args[2]
    /\ tx.result = "AlreadyVoted"

\* ---------------------------------------------------------------- C27
\* C27: on a configured survey grantTo, grantToSelf and getEncryptedTotal with
\* an index >= optionCount fail with InvalidOption, and grantTo / grantToSelf
\* fail with SurveyNotConfigured exactly for a valid index without votes
C27_IndexBeforeVotes ==
    [][isConfigured =>
          /\ (/\ tx'.op \in {"allowResultFor", "allowResultForSelf",
                             "getEncryptedTotal"}
              /\ GrantIndex(tx') >= Len(options)) => tx'.result = "InvalidOption"
          /\ tx'.op \in {"allowResultFor", "allowResultForSelf"} =>
                (tx'.result = "SurveyNotConfigured"
                    <=> /\ GrantIndex(tx') < Len(options)
                        /\ ~optionHasVotes[GrantIndex(tx')])]_vars

\* C27 witness: with votes cast, a grantToSelf for the index optionCount fails
\* with InvalidOption
C27_Witness ==
    /\ isConfigured
    /\ VotedOptions # {}
    /\ tx.op = "allowResultForSelf"
    /\ tx.args[1] = Len(options)
    /\ tx.result = "InvalidOption"

\* ---------------------------------------------------------------- C28
\* the events a successful call t emits, given the options with votes
ExpectedEvents(t, voted) ==
    CASE t.op = "configureSurvey" ->
            {<<[name |-> "SurveyConfigured", question |-> t.args[1],
                options |-> t.args[2]]>>}
      [] t.op = "submitVote" ->
            {<<[name |-> "VoteSubmitted", who |-> t.sender, idx |-> t.args[1]]>>}
      [] t.op = "finalizeSurvey" ->
            {<<[name |-> "SurveyFinalized", who |-> t.sender]>>}
      [] t.op = "allowResultFor" ->
            {<<[name |-> "ResultAccessGranted", who |-> t.args[1],
                idx |-> t.args[2]]>>}
      [] t.op = "allowResultForSelf" ->
            {<<[name |-> "SelfAccessGranted", who |-> t.sender,
                idx |-> t.args[1]]>>}
      [] t.op = "allowAllResultsForSelf" ->
            {e \in [1..Cardinality(voted) ->
                      {[name |-> "SelfAccessGranted", who |-> t.sender, idx |-> k] :
                         k \in voted}] :
                \A k \in voted : \E n \in 1..Cardinality(voted) : e[n].idx = k}
      [] OTHER -> {<<>>}

\* C28: each successful configure, submitVote, finalize, grantTo and
\* grantToSelf emits exactly one event (the vote event names the voter and the
\* option index), a successful grantAllToSelf emits one self-grant event per
\* option with votes, and a rejected call and a query emit nothing
C28_AuditLog ==
    [][IF tx'.result = "ok"
       THEN tx'.events \in ExpectedEvents(tx', VotedOptions)
       ELSE tx'.events = <<>>]_vars

\* C28 witness: the second accepted vote leaves one VoteSubmitted event that
\* names its voter and option 1
C28_Witness ==
    /\ \A i \in Addr : hasVoted[i]
    /\ tx.op = "submitVote"
    /\ tx.sender # owner
    /\ tx.events = <<[name |-> "VoteSubmitted", who |-> tx.sender, idx |-> 1]>>

C30_RejectedVoteNotConsumed ==
    [][tx'.op = "submitVote" =>
          /\ tx'.result \in {"InvalidOption", "InvalidProof"} =>
                /\ ~hasVoted'[tx'.sender]
                /\ UNCHANGED storage
          /\ (/\ Phase = "Configured"
              /\ ~hasVoted[tx'.sender]
              /\ tx'.args[1] < Len(options)
              /\ tx'.args[2]) =>
                (tx'.result = "ok" /\ hasVoted'[tx'.sender])]_vars

\* C30 witness: on an open survey where another identity has voted, a
\* submission is rejected for its proof and its sender's record is false
C30_Witness ==
    /\ Phase = "Configured"
    /\ tx.op = "submitVote"
    /\ tx.result = "InvalidProof"
    /\ ~hasVoted[tx.sender]
    /\ \E i \in Addr : hasVoted[i]

\* ---------------------------------------------------------------- C31
\* C31: an accepted vote by identity i for option k leaves untouched every
\* other option's accumulator and hasVotes flag, every other identity's voter
\* record, the option labels, the question, the creator and the two phase
\* flags; the grants it adds are all on option k's new accumulator and it
\* removes none
C31_VoteFrame ==
    [][(tx'.op = "submitVote" /\ tx'.result = "ok") =>
          LET i == tx'.sender
              k == tx'.args[1]
          IN  /\ Len(options') = Len(options)
              /\ \A j \in Indices :
                    (j # k /\ j < Len(options)) =>
                        /\ options'[j + 1] = options[j + 1]
                        /\ optionHasVotes'[j] = optionHasVotes[j]
              /\ \A a \in Addr : a # i => hasVoted'[a] = hasVoted[a]
              /\ options'[k + 1].label = options[k + 1].label
              /\ UNCHANGED <<surveyQuestion, surveyCreator, isConfigured,
                             isFinalized, owner>>
              /\ acl \subseteq acl'
              /\ \A g \in acl' \ acl : g[1] = options'[k + 1].encryptedTotal]_vars

\* C31 witness: a vote is accepted for one option while another option holds
\* the vote of the other identity
C31_Witness ==
    /\ tx.op = "submitVote"
    /\ tx.result = "ok"
    /\ \E j \in VotedOptions :
          /\ j # tx.args[1]
          /\ tx.sender \notin OptionAt(j).encryptedTotal.voters
          /\ \E a \in Addr : a # tx.sender /\ hasVoted[a]

\* ---------------------------------------------------------------- C32
\* C32: a finalize changes nothing but the finalized flag, and grantTo,
\* grantToSelf and grantAllToSelf change nothing but the grants: accumulators,
\* hasVotes flags, voter records, labels, question and creator stay as they
\* are, and a grant leaves the lifecycle phase as it is
C32_FinalizeAndGrantFrame ==
    [][/\ tx'.op = "finalizeSurvey" =>
             UNCHANGED <<options, optionHasVotes, hasVoted, surveyQuestion,
                         surveyCreator, isConfigured, acl>>
       /\ tx'.op \in {"allowResultFor", "allowResultForSelf",
                      "allowAllResultsForSelf"} =>
             /\ UNCHANGED <<options, optionHasVotes, hasVoted, surveyQuestion,
                            surveyCreator>>
             /\ Phase' = Phase]_vars

\* C32 witness: a survey is finalized while an identity that is neither owner
\* nor creator holds a grant on an option with votes
C32_Witness ==
    /\ tx.op = "finalizeSurvey"
    /\ tx.result = "ok"
    /\ \E k \in VotedOptions, g \in Addr \ {owner, surveyCreator} : Granted(k, g)

\* ---------------------------------------------------------------- C33
\* the sum of limb n of the values carried by the accepted votes in S
RECURSIVE SumLimb(_, _)
SumLimb(S, n) ==
    IF S = {} THEN 0
    ELSE LET b == CHOOSE x \in S : TRUE
         IN  BallotValue(b)[n] + SumLimb(S \ {b}, n)

\* the sum, modulo 2^32, of the values carried by the accepted votes in S
SumMod32(S) ==
    LET lo == SumLimb(S, 2)
        hi == SumLimb(S, 1) + (lo \div Limb)
    IN  <<hi % Limb, lo % Limb>>

\* C33: the value of every option's accumulator is the sum, modulo 2^32, of
\* the values carried by the accepted votes for that option, zero when there
\* are none; votes of any uint32 value, up to 2^32 - 1, are accepted
C33_TotalIsSumMod32 ==
    \A k \in Indices :
        k < Len(options) =>
            OptionAt(k).encryptedTotal.value = SumMod32(BallotsFor(k))

\* C33 witness: an option has taken a vote of 2^32 - 1 and a vote of 1, and
\* its accumulator has wrapped to 0
C33_Witness ==
    \E k \in Indices :
        /\ k < Len(options)
        /\ {BallotValue(b) : b \in BallotsFor(k)} = {One, MaxUint32}
        /\ OptionAt(k).encryptedTotal.value = <<0, 0>>

\* ---------------------------------------------------------------- C34
\* C34: in every reachable state finalized implies configured, and while the
\* survey is Unconfigured there is no option, no voter record set, no hasVotes
\* flag set, no grant and no creator
C34_PhaseConsistency ==
    /\ isFinalized => isConfigured
    /\ ~isConfigured =>
          /\ options = <<>>
          /\ \A i \in Addr : ~hasVoted[i]
          /\ \A k \in Indices : ~optionHasVotes[k]
          /\ acl = {}
          /\ surveyCreator = ZeroAddr

\* C34 witness: the survey is still Unconfigured after a vote with a valid
\* proof was refused
C34_Witness ==
    /\ Phase = "Unconfigured"
    /\ tx.op = "submitVote"
    /\ tx.args[2]
    /\ tx.result = "SurveyNotConfigured"
    /\ options = <<>> /\ acl = {}

\* ---------------------------------------------------------------- C35
\* the identities whose voter record is set
Voters == {i \in Addr : hasVoted[i]}

\* the indices whose hasVotes flag is set, in range or not
FlaggedOptions == {k \in Indices : optionHasVotes[k]}

\* C35: in every reachable state a set hasVotes flag belongs to an existing
\* option, some flag is set exactly when some voter record is set, and the
\* flags set are no more than the identities that have voted
C35_LedgerFlagConsistency ==
    /\ \A k \in FlaggedOptions : k < Len(options)
    /\ FlaggedOptions # {} <=> Voters # {}
    /\ Cardinality(FlaggedOptions) <= Cardinality(Voters)

\* C35 witness: two identities have voted for the same option, so one flag is
\* set for two voter records
C35_Witness ==
    /\ Cardinality(Voters) = 2
    /\ Cardinality(FlaggedOptions) = 1
    /\ \E k \in FlaggedOptions : OptionAt(k).encryptedTotal.voters = Voters

====
